---- MODULE Spec2Model ----
(***************************************************************************)
(* Ordered adjacency list (adjlist.py) and the graph algorithms built on   *)
(* it (algorithm.py).                                                      *)
(*                                                                         *)
(* A linked list of AdjacencyList objects is a sequence of node records    *)
(* [name, info, edges]; a linked list of Edge objects is a sequence of     *)
(* records [dst, weight]; the empty sentinel object is the empty sequence. *)
(* Node names are small integers, compared with < as the code             *)
(* compares names.  A reference to a node object is its position in the    *)
(* node sequence.                                                          *)
(***************************************************************************)
EXTENDS Integers, Sequences, FiniteSets, TLC

\* ---- bounds of the model -------------------------------------------------
\* nodes in the list and edges in the graph the mutations build
MaxNodes == 3
MaxEdges == 2
\* edges of the graphs the algorithms run on
MaxAlgEdges == 3
MaxLowEdges == 2

\* ---- values ---------------------------------------------------------------
\* Python's None where a name or a number is expected
None == -1
\* math.inf: larger than every finite sum the model can form
inf == 1000000

\* two names give an ordered pair, a duplicate and a dangling edge; two
\* weights tell an updated edge from the old one
Names == 1..2
Weights == 1..2
\* info field: None, or a list [distance, previous]
NoInfo == <<>>
Infos == {NoInfo, <<7, None>>}

\* x + y on Python floats with inf absorbing
Plus(x, y) == IF x = inf \/ y = inf THEN inf ELSE x + y
Min(x, y) == IF y < x THEN y ELSE x

\* AdjacencyList(name, info): empty tail, empty edge list
NewNode(name, info) == [name |-> name, info |-> info, edges |-> <<>>]
\* Edge(dst, weight)
NewEdge(dst, weight) == [dst |-> dst, weight |-> weight]

\* ---- Edge (per-node edge list) -------------------------------------------
\* Edge.add without the ordered insertion: a new edge goes to the front
Edge_add_unordered(es, dst, weight) ==
    IF es = <<>> THEN <<NewEdge(dst, weight)>>
    ELSE IF dst = Head(es).dst
         THEN <<[Head(es) EXCEPT !.weight = weight]>> \o Tail(es)
    ELSE <<NewEdge(dst, weight)>> \o es

RECURSIVE Edge_add(_, _, _)
Edge_add(es, dst, weight) ==
    IF es = <<>> THEN <<NewEdge(dst, weight)>>
    ELSE IF dst = Head(es).dst
         THEN <<[Head(es) EXCEPT !.weight = weight]>> \o Tail(es)
    ELSE IF dst < Head(es).dst THEN <<NewEdge(dst, weight)>> \o es
    ELSE <<Head(es)>> \o Edge_add(Tail(es), dst, weight)

RECURSIVE Edge_delete(_, _)
Edge_delete(es, dst) ==
    IF es = <<>> THEN es
    ELSE IF dst = Head(es).dst THEN Tail(es)
    ELSE <<Head(es)>> \o Edge_delete(Tail(es), dst)

RECURSIVE Edge_find(_, _)
Edge_find(es, dst) ==
    IF es = <<>> THEN FALSE
    ELSE IF dst = Head(es).dst THEN TRUE
    ELSE Edge_find(Tail(es), dst)

RECURSIVE Edge_cardinality(_)
Edge_cardinality(es) ==
    IF es = <<>> THEN 0 ELSE Edge_cardinality(Tail(es)) + 1

RECURSIVE Edge_list(_, _)
Edge_list(es, src) ==
    IF es = <<>> THEN <<>>
    ELSE <<<<src, Head(es).dst, Head(es).weight>>>> \o Edge_list(Tail(es), src)

\* ---- AdjacencyList: node operations --------------------------------------
RECURSIVE add_node(_, _, _)
add_node(l, name, info) ==
    IF l = <<>> THEN <<NewNode(name, info)>>
    ELSE IF name < Head(l).name THEN <<NewNode(name, info)>> \o l
    ELSE <<Head(l)>> \o add_node(Tail(l), name, info)

RECURSIVE delete_node(_, _)
delete_node(l, name) ==
    IF l = <<>> THEN l
    ELSE IF name = Head(l).name THEN Tail(l)
    ELSE IF name > Head(l).name THEN <<Head(l)>> \o delete_node(Tail(l), name)
    ELSE l

RECURSIVE find_node(_, _)
find_node(l, name) ==
    IF l = <<>> THEN FALSE
    ELSE IF name = Head(l).name THEN TRUE
    ELSE find_node(Tail(l), name)

\* the node object named `name` (its position in l), or the sentinel 0
RECURSIVE get_node(_, _)
get_node(l, name) ==
    IF l = <<>> THEN 0
    ELSE IF name = Head(l).name THEN 1
    ELSE LET r == get_node(Tail(l), name) IN IF r = 0 THEN 0 ELSE r + 1

RECURSIVE node_cardinality(_)
node_cardinality(l) ==
    IF l = <<>> THEN 0 ELSE node_cardinality(Tail(l)) + 1

\* ---- AdjacencyList: edge operations --------------------------------------
\* _add_edge; its precondition (src is a member) keeps it off the empty list
RECURSIVE add_edge_rec(_, _, _, _)
add_edge_rec(l, src, dst, weight) ==
    IF l = <<>> THEN l
    ELSE IF src = Head(l).name
         THEN <<[Head(l) EXCEPT !.edges = Edge_add(@, dst, weight)]>> \o Tail(l)
    ELSE IF src > Head(l).name
         THEN <<Head(l)>> \o add_edge_rec(Tail(l), src, dst, weight)
    ELSE l

\* add_edge that forgets to look up dst
add_edge_src_only(l, src, dst, weight) ==
    IF ~find_node(l, src) THEN l
    ELSE add_edge_rec(l, src, dst, weight)

add_edge(l, src, dst, weight) ==
    IF ~find_node(l, src) \/ ~find_node(l, dst) THEN l
    ELSE add_edge_rec(l, src, dst, weight)

RECURSIVE find_edge(_, _, _)
find_edge(l, src, dst) ==
    IF l = <<>> THEN FALSE
    ELSE IF src = Head(l).name THEN Edge_find(Head(l).edges, dst)
    ELSE find_edge(Tail(l), src, dst)

\* _delete_edge; only called when find_edge found src
RECURSIVE delete_edge_rec(_, _, _)
delete_edge_rec(l, src, dst) ==
    IF l = <<>> THEN l
    ELSE IF src = Head(l).name
         THEN <<[Head(l) EXCEPT !.edges = Edge_delete(@, dst)]>> \o Tail(l)
    ELSE IF src > Head(l).name
         THEN <<Head(l)>> \o delete_edge_rec(Tail(l), src, dst)
    ELSE l

delete_edge(l, src, dst) ==
    IF ~find_edge(l, src, dst) THEN l ELSE delete_edge_rec(l, src, dst)

RECURSIVE delete_edges(_, _)
delete_edges(l, name) ==
    IF l = <<>> THEN l
    ELSE <<[Head(l) EXCEPT !.edges = Edge_delete(@, name)]>>
         \o delete_edges(Tail(l), name)

RECURSIVE edge_cardinality(_)
edge_cardinality(l) ==
    IF l = <<>> THEN 0
    ELSE Edge_cardinality(Head(l).edges) + edge_cardinality(Tail(l))

RECURSIVE list_nodes(_)
list_nodes(l) ==
    IF l = <<>> THEN <<>> ELSE <<Head(l).name>> \o list_nodes(Tail(l))

RECURSIVE list_edges(_)
list_edges(l) ==
    IF l = <<>> THEN <<>>
    ELSE Edge_list(Head(l).edges, Head(l).name) \o list_edges(Tail(l))

\* ---- AdjacencyList: matrix export ----------------------------------------
\* 0-based position of the first node named dst; walking off the end of the
\* list reads _tail of the empty sentinel, which raises AttributeError (None)
RECURSIVE find_dst_index(_, _)
find_dst_index(l, dst) ==
    IF l = <<>> THEN None
    ELSE IF dst = Head(l).name THEN 0
    ELSE LET r == find_dst_index(Tail(l), dst) IN
         IF r = None THEN None ELSE r + 1

\* the inner loop of add_list_to_matrix over one node's edges; None if
\* find_dst_index raised
RECURSIVE fill_row(_, _, _)
fill_row(l, row, es) ==
    IF es = <<>> THEN row
    ELSE LET dst_index == find_dst_index(l, Head(es).dst) IN
         IF dst_index = None THEN <<None>>
         ELSE fill_row(l, [row EXCEPT ![dst_index + 1] = Head(es).weight],
                       Tail(es))

\* the outer loop, from the i-th node on
RECURSIVE fill_rows(_, _, _)
fill_rows(l, matrix, i) ==
    IF i > Len(l) THEN [status |-> "ok", val |-> matrix]
    ELSE LET row == fill_row(l, matrix[i], l[i].edges) IN
         IF row = <<None>> THEN [status |-> "AttributeError", val |-> <<>>]
         ELSE fill_rows(l, [matrix EXCEPT ![i] = row], i + 1)

add_list_to_matrix(l, matrix) == fill_rows(l, matrix, 1)

InfMatrix(n) == [i \in 1..n |-> [j \in 1..n |-> inf]]

adjacency_matrix(l) ==
    IF l = <<>> THEN [status |-> "ok", val |-> <<<<>>>>]
    ELSE add_list_to_matrix(l, InfMatrix(node_cardinality(l)))

\* ---- algorithm.py: helpers --------------------------------------------------
\* init_single_source: every node's info becomes [0, None] (the start node) or
\* [inf, None]; the queue q then holds every node object, in list order
init_single_source(l, start_node) ==
    [i \in 1..Len(l) |->
        [l[i] EXCEPT !.info = IF l[i].name = start_node THEN <<0, None>>
                              ELSE <<inf, None>>]]

\* the scan of get_min_node from position i on: the first position of q whose
\* node has the least info[0]
RECURSIVE min_scan(_, _, _, _)
min_scan(l, q, i, min_index) ==
    IF i > Len(q) THEN min_index
    ELSE IF l[q[i]].info[1] < l[q[min_index]].info[1]
         THEN min_scan(l, q, i + 1, i)
    ELSE min_scan(l, q, i + 1, min_index)

\* get_min_node that pops the front of the queue
get_min_node_fifo(l, q) == 1

\* get_min_node: the position in q of the node that is popped
get_min_node(l, q) == min_scan(l, q, 1, 1)

\* arr.pop(min_index)
Pop(q, k) == SubSeq(q, 1, k - 1) \o SubSeq(q, k + 1, Len(q))

InSeq(x, q) == \E k \in 1..Len(q) : q[k] = x

\* relax(u, v, weight) on the node objects at positions u and v
relax(l, u, v, weight) ==
    IF l[v].info[1] > Plus(l[u].info[1], weight)
    THEN [l EXCEPT ![v].info = <<Plus(l[u].info[1], weight), l[u].name>>]
    ELSE l

\* the sort of get_output: a stable insertion of node x into the sorted ns
RECURSIVE insert_by_name(_, _, _)
insert_by_name(l, ns, x) ==
    IF ns = <<>> THEN <<x>>
    ELSE IF l[x].name < l[Head(ns)].name THEN <<x>> \o ns
    ELSE <<Head(ns)>> \o insert_by_name(l, Tail(ns), x)

RECURSIVE sort_by_name(_, _)
sort_by_name(l, ns) ==
    IF ns = <<>> THEN <<>>
    ELSE insert_by_name(l, sort_by_name(l, SubSeq(ns, 1, Len(ns) - 1)),
                        ns[Len(ns)])

\* get_output(nodes, distance, previous): distance and previous have n slots,
\* preset to None; slot i is filled from the i-th node in name order
get_output(l, nodes, n) ==
    LET sorted == sort_by_name(l, nodes) IN
    << [i \in 1..n |-> IF i > Len(sorted) THEN None
                       ELSE IF l[sorted[i]].info[1] = 0 THEN None
                       ELSE l[sorted[i]].info[1]],
       [i \in 1..n |-> IF i > Len(sorted) THEN None
                       ELSE IF l[sorted[i]].info[1] = 0 THEN None
                       ELSE l[sorted[i]].info[2]] >>

\* ---- algorithm.py: dijkstra ---------------------------------------------
\* the for loop over the edges es of the popped node u; get_node returns 0
\* for a missing destination and relax then reads 0.info(): AttributeError
RECURSIVE dijkstra_edges(_, _, _)
dijkstra_edges(l, u, es) ==
    IF es = <<>> THEN [status |-> "ok", g |-> l]
    ELSE LET v == get_node(l, Head(es).dst) IN
         IF v = 0 THEN [status |-> "AttributeError", g |-> l]
         ELSE dijkstra_edges(relax(l, u, v, Head(es).weight), u, Tail(es))

\* the while loop
RECURSIVE dijkstra_loop(_, _, _)
dijkstra_loop(l, q, s) ==
    IF Len(q) = 0 THEN [status |-> "ok", g |-> l, s |-> s]
    ELSE LET k == get_min_node(l, q)
             u == q[k]
             r == dijkstra_edges(l, u, l[u].edges)
         IN IF r.status # "ok"
            THEN [status |-> r.status, g |-> r.g, s |-> Append(s, u)]
            ELSE dijkstra_loop(r.g, Pop(q, k), Append(s, u))

dijkstra(l, start_node) ==
    LET n == node_cardinality(l)
        l0 == init_single_source(l, start_node)
        r == dijkstra_loop(l0, [i \in 1..n |-> i], <<>>)
    IN IF r.status # "ok"
       THEN [status |-> r.status, val |-> <<>>, g |-> r.g, s |-> r.s]
       ELSE [status |-> "ok", val |-> get_output(r.g, r.s, n), g |-> r.g,
             s |-> r.s]

\* ---- algorithm.py: prim -------------------------------------------------
\* the update of prim's loop body with dijkstra's accumulated cost
prim_update_accumulating(l, q, u, v, weight) ==
    IF v # 0 /\ InSeq(v, q) /\ Plus(l[u].info[1], weight) < l[v].info[1]
    THEN [l EXCEPT ![v].info = <<Plus(l[u].info[1], weight), l[u].name>>]
    ELSE l

\* the body of prim's for loop: `v in q` is false for the sentinel 0
prim_update(l, q, u, v, weight) ==
    IF v # 0 /\ InSeq(v, q) /\ weight < l[v].info[1]
    THEN [l EXCEPT ![v].info = <<weight, l[u].name>>]
    ELSE l

RECURSIVE prim_edges(_, _, _, _)
prim_edges(l, q, u, es) ==
    IF es = <<>> THEN l
    ELSE prim_edges(prim_update(l, q, u, get_node(l, Head(es).dst),
                                Head(es).weight), q, u, Tail(es))

RECURSIVE prim_loop(_, _, _)
prim_loop(l, q, s) ==
    IF Len(q) = 0 THEN [status |-> "ok", g |-> l, s |-> s]
    ELSE LET k == get_min_node(l, q)
             u == q[k]
         IN prim_loop(prim_edges(l, Pop(q, k), u, l[u].edges), Pop(q, k),
                      Append(s, u))

prim(l, start_node) ==
    LET n == node_cardinality(l)
        l0 == init_single_source(l, start_node)
        r == prim_loop(l0, [i \in 1..n |-> i], <<>>)
    IN [status |-> "ok", val |-> get_output(r.g, r.s, n), g |-> r.g, s |-> r.s]

\* ---- algorithm.py: floyd, warshall --------------------------------------
\* floyd's cell update without the diagonal special case
floyd_cell_plain(m, k, i, j) == Min(m[i][j], Plus(m[i][k], m[k][j]))

\* the assignment to matrix[i][j] in floyd's innermost loop
floyd_cell(m, k, i, j) ==
    IF i = j /\ m[i][j] = inf THEN 0
    ELSE Min(m[i][j], Plus(m[i][k], m[k][j]))

\* the three nested loops, flattened: step t is k = t \div n^2,
\* i = (t \div n) % n, j = t % n (0-based as in the code)
RECURSIVE floyd_loop(_, _, _)
floyd_loop(m, n, t) ==
    IF t >= n * n * n THEN m
    ELSE LET k == (t \div (n * n)) + 1
             i == ((t \div n) % n) + 1
             j == (t % n) + 1
         IN floyd_loop([m EXCEPT ![i][j] = floyd_cell(m, k, i, j)], n, t + 1)

floyd(l) ==
    LET n == node_cardinality(l)
        r == add_list_to_matrix(l, InfMatrix(n))
    IN IF r.status # "ok" THEN r
       ELSE [status |-> "ok", val |-> floyd_loop(r.val, n, 0)]

\* warshall that tests the cell against 0 instead of inf
warshall_cell_zero(x) == IF x = 0 THEN FALSE ELSE TRUE

\* False if matrix[i][j] == inf else True
warshall_cell(x) == IF x = inf THEN FALSE ELSE TRUE

warshall(l) ==
    LET r == floyd(l) IN
    IF r.status # "ok" THEN r
    ELSE [status |-> "ok",
          val |-> [i \in 1..Len(r.val) |->
                     [j \in 1..Len(r.val[i]) |-> warshall_cell(r.val[i][j])]]]

\* ---- state ----------------------------------------------------------------
VARIABLES
    g,         \* the adjacency list the caller holds
    last,      \* the last call: its name and arguments
    out,       \* what the last call returned, for the calls that return data
    adds       \* while only add_node has been called: the names passed to it

vars == <<g, last, out, adds>>

\* some other mutation has been called
NotOnlyAdds == [only |-> FALSE, names |-> {}]

Call(op, src, dst, weight, info) ==
    [op |-> op, src |-> src, dst |-> dst, weight |-> weight, info |-> info]

NoOut == [status |-> "none", val |-> <<>>]

Init ==
    /\ g = <<>>
    /\ last = Call("init", None, None, None, NoInfo)
    /\ out = NoOut
    /\ adds = [only |-> TRUE, names |-> {}]

\* g = g.add_node(name, info)
AddNode(name, info) ==
    /\ node_cardinality(g) < MaxNodes
    /\ g' = add_node(g, name, info)
    /\ last' = Call("add_node", name, None, None, info)
    /\ out' = NoOut
    /\ adds' = IF adds.only THEN [adds EXCEPT !.names = @ \cup {name}]
                ELSE adds

\* g = g.delete_node(name)
DeleteNode(name) ==
    /\ g' = delete_node(g, name)
    /\ last' = Call("delete_node", name, None, None, NoInfo)
    /\ out' = NoOut
    /\ adds' = NotOnlyAdds

\* g = g.add_edge(src, dst, weight)
AddEdge(src, dst, weight) ==
    /\ edge_cardinality(add_edge(g, src, dst, weight)) <= MaxEdges
    /\ g' = add_edge(g, src, dst, weight)
    /\ last' = Call("add_edge", src, dst, weight, NoInfo)
    /\ out' = NoOut
    /\ adds' = NotOnlyAdds

\* g = g.delete_edge(src, dst)
DeleteEdge(src, dst) ==
    /\ g' = delete_edge(g, src, dst)
    /\ last' = Call("delete_edge", src, dst, None, NoInfo)
    /\ out' = NoOut
    /\ adds' = NotOnlyAdds

\* g = g.delete_edges(name)
DeleteEdges(name) ==
    /\ g' = delete_edges(g, name)
    /\ last' = Call("delete_edges", None, name, None, NoInfo)
    /\ out' = NoOut
    /\ adds' = NotOnlyAdds

\* g.adjacency_matrix()
ToMatrix ==
    /\ out' = adjacency_matrix(g)
    /\ last' = Call("adjacency_matrix", None, None, None, NoInfo)
    /\ UNCHANGED <<g, adds>>

Next ==
    \/ \E name \in Names, info \in Infos : AddNode(name, info)
    \/ \E name \in Names : DeleteNode(name)
    \/ \E src \in Names, dst \in Names, weight \in Weights :
          AddEdge(src, dst, weight)
    \/ \E src \in Names, dst \in Names : DeleteEdge(src, dst)
    \/ \E name \in Names : DeleteEdges(name)
    \/ ToMatrix

Spec == Init /\ [][Next]_vars

\* ---- the algorithms on a built graph --------------------------------------
\* names of the graphs the algorithms run on; graphs limited by an edge count
\* use the first three
AlgNames == 1..4
FewNames == 1..3
AlgWeights == 1..3

\* add_node for the names 1..k
RECURSIVE BuildNodes(_)
BuildNodes(k) ==
    IF k = 0 THEN <<>> ELSE add_node(BuildNodes(k - 1), k, NoInfo)

\* add_edge for every pair of E, weighted by w
RECURSIVE BuildEdges(_, _, _)
BuildEdges(l, E, w) ==
    IF E = {} THEN l
    ELSE LET e == CHOOSE x \in E : TRUE IN
         BuildEdges(add_edge(l, e[1], e[2], w[e]), E \ {e}, w)

\* delete_node for the names above n, which leaves the edges toward them
RECURSIVE DropNodes(_, _)
DropNodes(l, n) ==
    IF n >= Cardinality(AlgNames) THEN l
    ELSE delete_node(DropNodes(l, n + 1), n + 1)

\* the graph with nodes 1..n that a caller builds with add_node, add_edge
\* and delete_node
BuildGraph(n, E, w) ==
    DropNodes(BuildEdges(BuildNodes(Cardinality(AlgNames)), E, w), n)

\* graphs of 1..n nodes with at most MaxAlgEdges edges of positive weight
DirectedGraph(l) ==
    \E n \in FewNames :
        \E E \in SUBSET ((1..n) \X (1..n)) :
            /\ Cardinality(E) <= MaxAlgEdges
            /\ \E w \in [E -> AlgWeights] : l = BuildGraph(n, E, w)

\* graphs with at most MaxLowEdges edges of weight 0 or 1, edges toward
\* deleted nodes included
LowWeightGraph(l) ==
    \E n \in FewNames :
        \E E \in SUBSET ((1..n) \X AlgNames) :
            /\ Cardinality(E) <= MaxLowEdges
            /\ \E w \in [E -> {0, 1}] : l = BuildGraph(n, E, w)

\* undirected graphs: every chosen pair {i, j} is stored as i->j and j->i with
\* one weight
Mirror(P) == P \cup { <<e[2], e[1]>> : e \in P }
MirrorWeights(P, w) ==
    [e \in Mirror(P) |-> IF e \in P THEN w[e] ELSE w[<<e[2], e[1]>>]]

SymmetricGraph(l) ==
    \E n \in AlgNames :
        \E P \in SUBSET { e \in (1..n) \X (1..n) : e[1] < e[2] } :
            \E w \in [P -> AlgWeights] :
                l = BuildGraph(n, Mirror(P), MirrorWeights(P, w))

InitAlg ==
    /\ \/ DirectedGraph(g)
       \/ LowWeightGraph(g)
       \/ SymmetricGraph(g)
    /\ last = Call("init", None, None, None, NoInfo)
    /\ out = NoOut
    /\ adds = NotOnlyAdds

\* dijkstra(g, start_node); Pre: start_node is a member.  out.s is the list s
\* of completed nodes, in the order they were popped
Dijkstra(start_node) ==
    /\ last.op = "init"
    /\ find_node(g, start_node)
    /\ LET r == dijkstra(g, start_node) IN
           /\ g' = r.g
           /\ out' = [status |-> r.status, val |-> r.val, s |-> r.s]
    /\ last' = Call("dijkstra", start_node, None, None, NoInfo)
    /\ UNCHANGED adds

\* prim(g, start_node); Pre: start_node is a member
Prim(start_node) ==
    /\ last.op = "init"
    /\ find_node(g, start_node)
    /\ LET r == prim(g, start_node) IN
           /\ g' = r.g
           /\ out' = [status |-> r.status, val |-> r.val, s |-> r.s]
    /\ last' = Call("prim", start_node, None, None, NoInfo)
    /\ UNCHANGED adds

\* floyd(g)
Floyd ==
    /\ last.op = "init"
    /\ out' = floyd(g)
    /\ last' = Call("floyd", None, None, None, NoInfo)
    /\ UNCHANGED <<g, adds>>

\* warshall(g)
Warshall ==
    /\ last.op = "init"
    /\ out' = warshall(g)
    /\ last' = Call("warshall", None, None, None, NoInfo)
    /\ UNCHANGED <<g, adds>>

AlgNext ==
    \/ \E start_node \in AlgNames : Dijkstra(start_node)
    \/ \E start_node \in AlgNames : Prim(start_node)
    \/ Floyd
    \/ Warshall

AlgSpec == InitAlg /\ [][AlgNext]_vars

\* ---- helpers of the properties -------------------------------------------
StrictlyAscending(s) == \A i \in 1..(Len(s) - 1) : s[i] < s[i + 1]

\* the edges list_edges() reports for one source are strictly ascending by
\* destination
EdgesAscending(l) ==
    LET le == list_edges(l) IN
    \A i \in 1..Len(le), j \in 1..Len(le) :
        (i < j /\ le[i][1] = le[j][1]) => le[i][2] < le[j][2]

\* list_edges() with the weight of src->dst replaced by weight
WithWeight(le, src, dst, weight) ==
    [k \in 1..Len(le) |->
        IF le[k][1] = src /\ le[k][2] = dst THEN <<src, dst, weight>>
        ELSE le[k]]

\* the infos of the nodes named name, in list order
RECURSIVE InfosOf(_, _)
InfosOf(l, name) ==
    IF l = <<>> THEN <<>>
    ELSE (IF Head(l).name = name THEN <<Head(l).info>> ELSE <<>>)
         \o InfosOf(Tail(l), name)

\* some listed edge goes to dst
EdgeToward(l, dst) ==
    \E k \in 1..Len(list_edges(l)) : list_edges(l)[k][2] = dst

\* ---- C4 ------------------------------------------------------------------
\* C4: after any sequence of add_node calls from the empty graph,
\* list_nodes() is strictly ascending without duplicates and node_count()
\* is the number of distinct names inserted.
C4_NodesStrictlyAscending ==
    adds.only =>
        /\ StrictlyAscending(list_nodes(g))
        /\ node_cardinality(g) = Cardinality(adds.names)

\* ---- C5 ------------------------------------------------------------------
\* C5: add_node(name, info) on a graph that already has a node `name` only
\* sets that node's info: node list, node count and all edges stay as they
\* were, so a second identical call changes nothing.
C5_AddExistingOnlyInfo ==
    [][(last'.op = "add_node" /\ find_node(g, last'.src)) =>
          /\ list_nodes(g') = list_nodes(g)
          /\ node_cardinality(g') = node_cardinality(g)
          /\ list_edges(g') = list_edges(g)
          /\ InfosOf(g', last'.src) = <<last'.info>>
          /\ add_node(g', last'.src, last'.info) = g']_vars

\* ---- C6 ------------------------------------------------------------------
\* C6: the edges of every source node are listed strictly ascending by
\* destination, without duplicate destinations; add_edge on an existing edge
\* sets its weight and leaves the edge count and all other edges unchanged.
C6_EdgesOrderedAndUpdated ==
    /\ [](EdgesAscending(g))
    /\ [][(/\ last'.op = "add_edge"
           /\ find_node(g, last'.src) /\ find_node(g, last'.dst)
           /\ find_edge(g, last'.src, last'.dst)) =>
          /\ edge_cardinality(g') = edge_cardinality(g)
          /\ list_edges(g') =
                WithWeight(list_edges(g), last'.src, last'.dst, last'.weight)
          /\ list_nodes(g') = list_nodes(g)]_vars

\* add_edge has run on a source that now lists two edges, the called one
\* among them with the weight of the call
C6_Witness ==
    /\ last.op = "add_edge"
    /\ \E k \in 1..Len(list_edges(g)) :
          list_edges(g)[k] = <<last.src, last.dst, last.weight>>
    /\ \E i \in 1..Len(g) : g[i].name = last.src /\ Len(g[i].edges) = 2

\* ---- C7 ------------------------------------------------------------------
\* C7: add_edge(src, dst, w) with src or dst not a current node leaves the
\* graph unchanged: same nodes, same edges, same counts.
C7_AddEdgeAbsentNoOp ==
    [][(last'.op = "add_edge" /\
          (~find_node(g, last'.src) \/ ~find_node(g, last'.dst))) =>
          /\ g' = g
          /\ list_nodes(g') = list_nodes(g)
          /\ list_edges(g') = list_edges(g)
          /\ node_cardinality(g') = node_cardinality(g)
          /\ edge_cardinality(g') = edge_cardinality(g)]_vars

\* add_edge was called on a graph that has src and an edge, but not dst
C7_Witness ==
    /\ last.op = "add_edge"
    /\ find_node(g, last.src) /\ ~find_node(g, last.dst)
    /\ edge_cardinality(g) > 0

\* ---- C8 ------------------------------------------------------------------
\* C8: right after delete_node(n), find_node(n) is false; the edges s->n of
\* other nodes survive the deletion; after delete_edges(n) no edge goes to n.
C8_DeleteNodeRemoves ==
    /\ [](last.op = "delete_node" => ~find_node(g, last.src))
    /\ [][last'.op = "delete_node" =>
            \A s \in Names \ {last'.src} :
                find_edge(g, s, last'.src) => find_edge(g', s, last'.src)]_vars
    /\ [](last.op = "delete_edges" => ~EdgeToward(g, last.dst))

\* ---- C9 ------------------------------------------------------------------
\* the i-th node has an edge whose destination resolves to the j-th node
EdgeWeightBetween(l, i, j) ==
    LET hits == {k \in 1..Len(l[i].edges) : get_node(l, l[i].edges[k].dst) = j}
    IN IF hits = {} THEN inf
       ELSE l[i].edges[CHOOSE k \in hits : TRUE].weight

\* C9: on every non-empty reachable graph, to_matrix() returns the NxN matrix
\* in node order whose cell (i,j) is the weight of the edge i->j, or +infinity.
C9_MatrixOfReachableGraph ==
    (last.op = "adjacency_matrix" /\ g # <<>>) =>
        /\ out.status = "ok"
        /\ out.val = [i \in 1..Len(g) |->
                         [j \in 1..Len(g) |-> EdgeWeightBetween(g, i, j)]]

\* ---- reference notions for the algorithms ---------------------------------
DistinctNames(l) == StrictlyAscending(list_nodes(l))

NoDangling(l) ==
    \A i \in 1..Len(l) : \A k \in 1..Len(l[i].edges) :
        find_node(l, l[i].edges[k].dst)

PositiveWeights(l) ==
    \A i \in 1..Len(l) : \A k \in 1..Len(l[i].edges) : l[i].edges[k].weight > 0

MinOf(S) == CHOOSE x \in S : \A y \in S : x <= y

\* the sequence <<f[1], ..., f[n]>>
RECURSIVE AsSeq(_, _)
AsSeq(f, n) == IF n = 0 THEN <<>> ELSE Append(AsSeq(f, n - 1), f[n])

\* the weights of l as a matrix over node positions
WeightMatrix(l) ==
    AsSeq([i \in 1..Len(l) |->
             AsSeq([j \in 1..Len(l) |-> EdgeWeightBetween(l, i, j)], Len(l))],
          Len(l))

\* one more edge: from the least weights P of paths with at most k edges to
\* those of paths with at most k + 1 edges
MoreEdges(W, P) ==
    AsSeq([i \in 1..Len(W) |->
             AsSeq([j \in 1..Len(W) |->
                      MinOf({P[i][j]} \cup
                            { Plus(P[i][u], W[u][j]) : u \in 1..Len(W) })],
                   Len(W))],
          Len(W))

RECURSIVE PathCosts(_, _, _)
PathCosts(W, P, k) == IF k = 0 THEN P ELSE PathCosts(W, MoreEdges(W, P), k - 1)

\* ShortestPath(W)[i][j]: the least total weight of a directed path from the
\* i-th to the j-th node (0 for i = j, inf if there is none)
ShortestPath(W) ==
    PathCosts(W, AsSeq([i \in 1..Len(W) |->
                          AsSeq([j \in 1..Len(W) |->
                                   IF i = j THEN 0 ELSE inf], Len(W))],
                       Len(W)),
              Len(W))

\* the least total weight of a path of one or more edges from i back to i,
\* given the shortest paths SP
CycleCost(W, SP, i) ==
    MinOf({ Plus(SP[i][u], W[u][i]) : u \in 1..Len(W) })

\* ---- C1 ------------------------------------------------------------------
\* what C1 says of the arrays d and e returned for the start position s, given
\* the weights W and the shortest paths SP
ShortestPathArrays(l, W, SP, s, d, e) ==
    /\ Len(d) = Len(l) /\ Len(e) = Len(l)
    /\ \A i \in (1..Len(l)) \ {s} :
          /\ d[i] = SP[s][i]
          /\ SP[s][i] = inf => e[i] = None
          /\ SP[s][i] < inf =>
                \E u \in 1..Len(l) :
                    /\ e[i] = l[u].name
                    /\ W[u][i] < inf
                    /\ Plus(SP[s][u], W[u][i]) = SP[s][i]

\* C1: on a graph with distinct names, no dangling edges and positive
\* weights, dijkstra returns for every node i other than the start node the
\* least path weight from the start node (inf if unreachable) and a
\* predecessor u with an edge u->i on a shortest path (None if unreachable).
C1_DijkstraShortestPaths ==
    (/\ last.op = "dijkstra"
     /\ DistinctNames(g) /\ NoDangling(g) /\ PositiveWeights(g)) =>
        /\ out.status = "ok"
        /\ \A W \in {WeightMatrix(g)} : \A SP \in {ShortestPath(W)} :
              ShortestPathArrays(g, W, SP, get_node(g, last.src),
                                 out.val[1], out.val[2])

\* dijkstra has run on such a graph where some node is reached more cheaply
\* through another node than by its direct edge from the start node
C1_Witness ==
    /\ last.op = "dijkstra"
    /\ DistinctNames(g) /\ NoDangling(g) /\ PositiveWeights(g)
    /\ out.status = "ok"
    /\ \E i \in 1..Len(g) :
          /\ out.val[1][i] # None
          /\ out.val[1][i] < EdgeWeightBetween(g, get_node(g, last.src), i)
          /\ EdgeWeightBetween(g, get_node(g, last.src), i) < inf

\* ---- C2 ------------------------------------------------------------------
SymmetricWeights(W) ==
    \A i \in 1..Len(W), j \in 1..Len(W) : W[i][j] = W[j][i]

ConnectedWeights(W) ==
    \A SP \in {ShortestPath(W)} :
        \A i \in 1..Len(W), j \in 1..Len(W) : SP[i][j] < inf

Symmetric(l) == NoDangling(l) /\ SymmetricWeights(WeightMatrix(l))

Connected(l) == ConnectedWeights(WeightMatrix(l))

\* following the parents f from node i reaches the root s within k steps
RECURSIVE ReachesRoot(_, _, _, _)
ReachesRoot(f, s, i, k) ==
    IF i = s THEN TRUE
    ELSE IF k = 0 THEN FALSE
    ELSE ReachesRoot(f, s, f[i], k - 1)

RECURSIVE SumOver(_, _)
SumOver(f, S) ==
    IF S = {} THEN 0
    ELSE LET x == CHOOSE y \in S : TRUE IN f[x] + SumOver(f, S \ {x})

\* the spanning trees rooted at s, as parent functions over edges of W
SpanningTrees(W, s) ==
    { f \in [(1..Len(W)) \ {s} -> 1..Len(W)] :
        \A i \in (1..Len(W)) \ {s} :
            /\ W[f[i]][i] < inf
            /\ ReachesRoot(f, s, i, Len(W)) }

TreeWeight(W, s, f) ==
    SumOver([i \in (1..Len(W)) \ {s} |-> W[f[i]][i]], (1..Len(W)) \ {s})

\* what C2 says of the arrays lowcost and closest returned for the start
\* position s
MinimumSpanningArrays(l, W, s, lowcost, closest) ==
    LET rest == (1..Len(l)) \ {s} IN
    /\ Len(lowcost) = Len(l) /\ Len(closest) = Len(l)
    /\ \A i \in rest : find_node(l, closest[i])
    /\ \A f \in {[i \in rest |-> get_node(l, closest[i])]} :
          /\ f \in SpanningTrees(W, s)
          /\ \A i \in rest : lowcost[i] = W[f[i]][i]
          /\ \A t \in SpanningTrees(W, s) :
                SumOver(lowcost, rest) <= TreeWeight(W, s, t)

\* C2: on a connected graph with distinct names and symmetric positive
\* edges, the edges closest[i] - i returned by prim form a spanning tree,
\* lowcost[i] is the weight of closest[i] - i, and the sum of lowcost is the
\* least weight of any spanning tree.
C2_PrimMinimumSpanningTree ==
    (/\ last.op = "prim"
     /\ DistinctNames(g) /\ PositiveWeights(g) /\ NoDangling(g)
     /\ \A W \in {WeightMatrix(g)} :
           SymmetricWeights(W) /\ ConnectedWeights(W)) =>
        /\ out.status = "ok"
        /\ \A W \in {WeightMatrix(g)} :
              MinimumSpanningArrays(g, W, get_node(g, last.src),
                                    out.val[1], out.val[2])

\* prim has run on such a graph of three or more nodes and left out an edge
\* of the start node in favour of a cheaper edge from another node
C2_Witness ==
    /\ last.op = "prim"
    /\ DistinctNames(g) /\ Symmetric(g) /\ PositiveWeights(g) /\ Connected(g)
    /\ Len(g) >= 3
    /\ \E i \in 1..Len(g) :
          /\ out.val[2][i] # None
          /\ out.val[2][i] # last.src
          /\ EdgeWeightBetween(g, get_node(g, last.src), i) < inf

\* ---- C3 ------------------------------------------------------------------
\* C3 as stated: off the diagonal floyd returns the least path weight; on the
\* diagonal 0 without a self-loop and the original self-loop weight with one.
C3_FloydDiagonalKeepsSelfLoop ==
    (/\ last.op = "floyd" /\ g # <<>>
     /\ DistinctNames(g) /\ NoDangling(g) /\ PositiveWeights(g)) =>
        /\ out.status = "ok"
        /\ \A W \in {WeightMatrix(g)} : \A SP \in {ShortestPath(W)} :
              out.val =
                [i \in 1..Len(g) |-> [j \in 1..Len(g) |->
                    IF i # j THEN SP[i][j]
                    ELSE IF W[i][i] = inf THEN 0
                    ELSE W[i][i]]]

\* C3 (amended): off the diagonal floyd returns the least path weight (inf if
\* unreachable); on the diagonal 0 for a node without a self-loop, and for a
\* node with one the least weight of a path of one or more edges from the node
\* back to itself.
C3_FloydShortestPaths ==
    (/\ last.op = "floyd" /\ g # <<>>
     /\ DistinctNames(g) /\ NoDangling(g) /\ PositiveWeights(g)) =>
        /\ out.status = "ok"
        /\ \A W \in {WeightMatrix(g)} : \A SP \in {ShortestPath(W)} :
              out.val =
                [i \in 1..Len(g) |-> [j \in 1..Len(g) |->
                    IF i # j THEN SP[i][j]
                    ELSE IF W[i][i] = inf THEN 0
                    ELSE CycleCost(W, SP, i)]]

\* floyd has run on such a graph where a cycle through another node is
\* cheaper than the self-loop of a node, and another node has no self-loop
C3_Witness ==
    /\ last.op = "floyd"
    /\ DistinctNames(g) /\ NoDangling(g) /\ PositiveWeights(g)
    /\ out.status = "ok"
    /\ \E i \in 1..Len(g) :
          /\ EdgeWeightBetween(g, i, i) < inf
          /\ out.val[i][i] < EdgeWeightBetween(g, i, i)
    /\ \E i \in 1..Len(g) : EdgeWeightBetween(g, i, i) = inf

\* ---- C10 -----------------------------------------------------------------
\* the nodes reached from the set S by at most k more edges of W
RECURSIVE ReachedFrom(_, _, _)
ReachedFrom(W, S, k) ==
    IF k = 0 THEN S
    ELSE ReachedFrom(W, S \cup { j \in 1..Len(W) :
                                   \E u \in S : W[u][j] < inf }, k - 1)

\* there is a directed path of one or more edges from i to j
HasPath(W, i, j) ==
    j \in ReachedFrom(W, { u \in 1..Len(W) : W[i][u] < inf }, Len(W))

\* C10: on a non-empty graph with distinct names and no dangling edges, a
\* cell of warshall is true exactly when the floyd cell is finite: true on the
\* diagonal, and off the diagonal true iff there is a directed path.
C10_WarshallReachability ==
    (/\ last.op = "warshall" /\ g # <<>>
     /\ DistinctNames(g) /\ NoDangling(g)) =>
        /\ out.status = "ok"
        /\ Len(out.val) = Len(g)
        /\ \A W \in {WeightMatrix(g)} : \A F \in {floyd(g).val} :
           \A i \in 1..Len(g) :
              /\ Len(out.val[i]) = Len(g)
              /\ out.val[i][i] = TRUE
              /\ \A j \in 1..Len(g) :
                    /\ out.val[i][j] = (F[i][j] < inf)
                    /\ i # j => (out.val[i][j] = HasPath(W, i, j))

\* warshall has run on such a graph with an unreachable pair and a pair that
\* is connected only through a third node
C10_Witness ==
    /\ last.op = "warshall"
    /\ DistinctNames(g) /\ NoDangling(g)
    /\ out.status = "ok"
    /\ \E i \in 1..Len(g), j \in 1..Len(g) : i # j /\ out.val[i][j] = FALSE
    /\ \E i \in 1..Len(g), j \in 1..Len(g) :
          i # j /\ out.val[i][j] = TRUE /\ EdgeWeightBetween(g, i, j) = inf

\* ---- C11 -----------------------------------------------------------------
NonNegativeWeights(l) ==
    \A i \in 1..Len(l) : \A k \in 1..Len(l[i].edges) : l[i].edges[k].weight >= 0

\* the arrays d and e hold None at the start node's index and nowhere else in
\* d; at every other index they hold the final info of the i-th node
NoneOnlyAtStart(l, start_node, d, e) ==
    /\ Len(d) = Len(l) /\ Len(e) = Len(l)
    /\ \A i \in 1..Len(l) :
          IF l[i].name = start_node
          THEN d[i] = None /\ e[i] = None
          ELSE /\ d[i] # None
               /\ d[i] = l[i].info[1]
               /\ e[i] = l[i].info[2]

\* C11: on a graph with distinct names, no dangling edges and non-negative
\* weights (0 included), the two arrays returned by dijkstra and by prim hold
\* None at exactly the index of start_node, and at every other index i the
\* final scratch values (info[0], info[1]) of the i-th node in name order.
C11_NoneOnlyAtStart ==
    (/\ last.op \in {"dijkstra", "prim"}
     /\ DistinctNames(g) /\ NoDangling(g) /\ NonNegativeWeights(g)) =>
        /\ out.status = "ok"
        /\ NoneOnlyAtStart(g, last.src, out.val[1], out.val[2])

\* ---- C12 -----------------------------------------------------------------
\* the run of op ended normally after popping every node exactly once, the
\* start node (the only info[0] = 0 of the first scan) first, and returned
\* two arrays of length N
RunsToCompletion(op) ==
    (last.op = op /\ g # <<>>) =>
        /\ out.status = "ok"
        /\ Len(out.s) = Len(g)
        /\ { out.s[k] : k \in 1..Len(out.s) } = 1..Len(g)
        /\ g[out.s[1]].name = last.src
        /\ Len(out.val) = 2
        /\ Len(out.val[1]) = Len(g) /\ Len(out.val[2]) = Len(g)

\* C12: on every non-empty graph built by the mutation operations, edges
\* toward deleted nodes included, and every start_node in the graph, dijkstra
\* and prim run to completion: N iterations, each popping one node, the
\* working set empty at the end, and two arrays of length N returned.
C12_RunToCompletion ==
    RunsToCompletion("dijkstra") /\ RunsToCompletion("prim")
====
